---- MODULE Spec2Model ----
(***************************************************************************)
(* Homework-assignment tracker (src/app.py): the Flask route handlers over *)
(* the "assignments" and "users" collections, the status deriver and the   *)
(* search/export query builder.                                            *)
(*                                                                         *)
(* Time is counted in hours since 2024-01-01 00:00.  A stored due date is  *)
(* a datetime, i.e. a number of hours; a calendar day d starts at d * 24.  *)
(* Strings that the code inspects character by character (title, notes,    *)
(* the free-text query) are sequences of one-character strings.            *)
(*                                                                         *)
(* src/app.py line 187 reads `user_id: current_user.id,` inside a call,    *)
(* which Python rejects; the add handler is modelled as the keyword        *)
(* argument user_id=current_user.id that line 272 of the edit handler      *)
(* spells out.                                                             *)
(***************************************************************************)
EXTENDS Integers, Sequences, FiniteSets, TLC

VARIABLES
    col,          \* db["assignments"]: id -> document, or NoDoc
    next_id,      \* the next ObjectId the database hands out
    now,          \* datetime.utcnow() / datetime.now(), in hours
    upsert_checked, \* does the driver reject a non-bool third argument of update_one
    tproc,        \* toggle requests between their find_one and their update_one
    last,         \* the response of the request that finished last
    prev,         \* the document the last request addressed, as it was before
    tog,          \* the current run of consecutive toggles of one record
    completed_at, \* id -> the time the record was last marked completed
    users_col,    \* db["users"]: the accounts, in insertion order
    rproc,        \* register requests between their checks and their insert
    calc_in,      \* the argument of calculate_assignment_status and the clock
    calc_out      \* its result

vars == <<col, next_id, now, upsert_checked, tproc, last, prev, tog,
          completed_at, users_col, rproc, calc_in, calc_out>>

---------------------------------------------------------------------------
(* Bounds of the model *)

MaxDocs == 2
MaxTime == 25
ShortTime == 12
MaxAccounts == 3
MaxDay == 2

(* Program constants *)

VisibleHours == 24
DueSoonHours == 24
SearchLimit == 100

---------------------------------------------------------------------------
(* Values *)

Anonymous == "anonymous"
UserIds == {"u1", "u2"}
Requesters == UserIds \cup {Anonymous}
NoUser == "none"

Ids == 1..MaxDocs
BadId == 0
NoDoc == [user_id |-> NoUser]
NoTime == -1

TickSteps == {12, 13}

Min(a, b) == IF a < b THEN a ELSE b

(* dict.get(key, default) on a field that a document may lack: the field  *)
(* is the empty set when absent and a singleton otherwise.                 *)
Get(field, default) == IF field = {} THEN default ELSE CHOOSE v \in field : TRUE

(* bool(doc.get("completed", False)) *)
IsCompleted(doc) == Get(doc.completed, FALSE)

Midnight(day) == day * 24
DayOf(hours) == hours \div 24

---------------------------------------------------------------------------
(* Parsing of request strings *)

ValueError == -2

(* int(s) on the strings the model submits *)
IntTable == [s \in {"1", "2", "3", "30", "60"} |->
               CASE s = "1" -> 1 [] s = "2" -> 2 [] s = "3" -> 3
                 [] s = "30" -> 30 [] s = "60" -> 60]
ParseInt(s) == IF s \in DOMAIN IntTable THEN IntTable[s] ELSE ValueError

(* date.fromisoformat(s): the calendar day, or ValueError *)
DateTable == [s \in {"2024-01-01", "2024-01-02", "2024-01-03", "2024-01-04"} |->
               CASE s = "2024-01-01" -> 0 [] s = "2024-01-02" -> 1
                 [] s = "2024-01-03" -> 2 [] s = "2024-01-04" -> 3]
ParseIsoDate(s) == IF s \in DOMAIN DateTable THEN DateTable[s] ELSE ValueError

(* priority = int(priority_str) if priority_str else 2 *)
ParsePriority(s) == IF s = "" THEN 2 ELSE ParseInt(s)

(* estimated_time = int(estimated_time_str) if estimated_time_str else None *)
ParseEstimated(s) == IF s = "" THEN NoTime ELSE ParseInt(s)

(* The form of an add or edit request raises ValueError in the handler *)
FormValueError(form) ==
    \/ ParsePriority(form.priority) = ValueError
    \/ ParseEstimated(form.estimated_time) = ValueError
    \/ ParseIsoDate(form.due_date) = ValueError

(* AssignmentCreate / AssignmentUpdate raise ValidationError: the title is empty *)
FormValidationError(form) == form.title = <<>>

(* assignment_to_dict(AssignmentCreate(...)): the document that is stored *)
assignment_to_dict(u, form, t) ==
    [user_id |-> u,
     title |-> form.title,
     course |-> form.course,
     notes |-> form.notes,
     due_date |-> Midnight(ParseIsoDate(form.due_date)),
     priority |-> ParsePriority(form.priority),
     estimated_time |-> ParseEstimated(form.estimated_time),
     completed |-> {FALSE},
     created_at |-> t,
     updated_at |-> t]

---------------------------------------------------------------------------
(* The assignment repository *)

(* col.find(query): the ids of the stored documents that match *)
Find(c, Matches(_)) == {id \in Ids : c[id] # NoDoc /\ Matches(c[id])}

(* .sort([("due_date", 1), ("created_at", -1)]): document a sorts strictly *)
(* before document b                                                       *)
BeforeCreatedAscending(a, b) ==
    \/ a.due_date < b.due_date
    \/ a.due_date = b.due_date /\ a.created_at < b.created_at

Before(a, b) ==
    \/ a.due_date < b.due_date
    \/ a.due_date = b.due_date /\ a.created_at > b.created_at

(* One step of the sort: id goes in front of the first element it sorts before *)
InsertSorted(s, id, c) ==
    LET later == {i \in 1..Len(s) : Before(c[id], c[s[i]])}
        p == IF later = {} THEN Len(s) + 1
             ELSE CHOOSE i \in later : \A j \in later : i <= j
    IN  SubSeq(s, 1, p - 1) \o <<id>> \o SubSeq(s, p, Len(s))

RECURSIVE SortFrom(_, _, _)
SortFrom(S, c, acc) ==
    IF S = {} THEN acc
    ELSE LET id == CHOOSE i \in S : \A j \in S : i <= j
         IN  SortFrom(S \ {id}, c, InsertSorted(acc, id, c))

(* cursor = col.find(query).sort(...): the matching ids in sorted order *)
SortedFind(c, Matches(_)) == SortFrom(Find(c, Matches), c, <<>>)

(* .limit(n) *)
Limit(s, n) == SubSeq(s, 1, Min(Len(s), n))

---------------------------------------------------------------------------
(* Responses: what the request did, as its client and the database see it. *)
(* repo tells whether the handler issued a call on the assignment          *)
(* collection, listing holds the ids of the documents handed to the        *)
(* template or the CSV writer, at is the time of the request.              *)

NoArgs == [q |-> <<>>, course |-> "", due_start |-> "", due_end |-> "",
           time_min |-> "", time_max |-> "", show_completed |-> ""]

Response(op, u, id, status, repo, listing, args) ==
    [op |-> op, user |-> u, id |-> id, status |-> status, repo |-> repo,
     listing |-> listing, args |-> args, at |-> now]

NoResponse ==
    [op |-> "none", user |-> Anonymous, id |-> BadId, status |-> "none",
     repo |-> FALSE, listing |-> <<>>, args |-> NoArgs, at |-> 0]

(* @login_required turns an unauthenticated request away before the handler runs *)
LoginRequired(op, id) ==
    Response(op, Anonymous, id, "login", FALSE, <<>>, NoArgs)

NoTog == [id |-> BadId, user |-> NoUser, n |-> 0, orig |-> FALSE, raced |-> FALSE]

IdleProc == [pc |-> "idle", user |-> NoUser, id |-> BadId, doc |-> NoDoc]

DocAt(c, id) == IF id \in Ids THEN c[id] ELSE NoDoc

---------------------------------------------------------------------------
(* GET / *)

IndexQueryStrictlyInside(doc, t) ==
    \/ doc.completed # {TRUE}
    \/ doc.completed = {TRUE} /\ doc.updated_at > t - VisibleHours

(* {"$or": [{"completed": {"$ne": True}},                                  *)
(*          {"completed": True, "updated_at": {"$gte": t - 24h}}]}         *)
IndexQuery(doc, t) ==
    \/ doc.completed # {TRUE}
    \/ doc.completed = {TRUE} /\ doc.updated_at >= t - VisibleHours

Index(u) ==
    LET Visible(doc) == IndexQuery(doc, now)
        assignments == SortedFind(col, Visible)
    IN  /\ last' = IF u # Anonymous
                   THEN Response("index", u, BadId, "ok", TRUE, assignments, NoArgs)
                   ELSE Response("index", u, BadId, "login", TRUE, <<>>, NoArgs)
        /\ prev' = NoDoc
        /\ tog' = NoTog
        /\ UNCHANGED <<col, next_id, now, upsert_checked, tproc, completed_at,
                       users_col, rproc, calc_in, calc_out>>

---------------------------------------------------------------------------
(* POST /add *)

AddAssignment(u, form) ==
    /\ prev' = NoDoc
    /\ tog' = NoTog
    /\ IF u = Anonymous
       THEN /\ last' = LoginRequired("add", BadId)
            /\ UNCHANGED <<col, next_id>>
       ELSE IF FormValueError(form) \/ FormValidationError(form)
       THEN /\ last' = Response("add", u, BadId, "bad_request", FALSE, <<>>, NoArgs)
            /\ UNCHANGED <<col, next_id>>
       ELSE /\ next_id <= MaxDocs
            /\ col' = [col EXCEPT ![next_id] = assignment_to_dict(u, form, now)]
            /\ next_id' = next_id + 1
            /\ last' = Response("add", u, next_id, "redirect", TRUE, <<>>, NoArgs)
    /\ UNCHANGED <<now, upsert_checked, tproc, completed_at,
                   users_col, rproc, calc_in, calc_out>>

---------------------------------------------------------------------------
(* POST /toggle/<assignment_id> *)

ToggleAlwaysCompleted(doc) == TRUE

(* new_completed = not bool(doc.get("completed", False)) *)
ToggleNewCompleted(doc) == ~IsCompleted(doc)

(* The part of the handler up to and including doc = col.find_one({"_id": oid}) *)
ToggleFind(p, u, id) ==
    /\ tproc[p].pc = "idle"
    /\ IF u = Anonymous
       THEN /\ last' = LoginRequired("toggle", id)
            /\ prev' = DocAt(col, id)
            /\ tog' = NoTog
            /\ UNCHANGED tproc
       ELSE IF id = BadId
       THEN /\ last' = Response("toggle", u, id, "bad_request", FALSE, <<>>, NoArgs)
            /\ prev' = NoDoc
            /\ tog' = NoTog
            /\ UNCHANGED tproc
       ELSE IF col[id] = NoDoc
       THEN /\ last' = Response("toggle", u, id, "not_found", TRUE, <<>>, NoArgs)
            /\ prev' = NoDoc
            /\ tog' = NoTog
            /\ UNCHANGED tproc
       ELSE /\ tproc' = [tproc EXCEPT ![p] =
                           [pc |-> "found", user |-> u, id |-> id, doc |-> col[id]]]
            /\ UNCHANGED <<last, prev, tog>>
    /\ UNCHANGED <<col, next_id, now, upsert_checked, completed_at,
                   users_col, rproc, calc_in, calc_out>>

(* A document that an upsert creates holds the filter's _id and the $set   *)
(* fields only; the fields it lacks read as None.                          *)
UpsertedDoc(new_completed, t) ==
    [user_id |-> NoUser, title |-> <<>>, course |-> "", notes |-> <<>>,
     due_date |-> NoTime, priority |-> NoTime, estimated_time |-> NoTime,
     completed |-> {new_completed}, created_at |-> NoTime, updated_at |-> t]

(* col.update_one({"_id": oid}, {"$set": {...}}, {"user_id": ...}): the    *)
(* third positional parameter of update_one is upsert, so the owner        *)
(* condition is no part of the filter.  A driver that validates upsert     *)
(* raises TypeError before anything is written; one that takes the dict as *)
(* a true value updates the matching document or inserts one.              *)
ToggleUpdate(p) ==
    LET u == tproc[p].user
        id == tproc[p].id
        new_completed == ToggleNewCompleted(tproc[p].doc)
        started == tog.id = id /\ tog.user = u /\ tog.n = 1
        (* another request of the same user has read the same document    *)
        (* and has not written yet                                        *)
        raced == \E q \in DOMAIN tproc :
                    /\ q # p
                    /\ tproc[q].pc = "found"
                    /\ tproc[q].id = id
                    /\ tproc[q].user = u
                    /\ tproc[q].doc = tproc[p].doc
    IN  /\ tproc[p].pc = "found"
        /\ tproc' = [tproc EXCEPT ![p] = IdleProc]
        /\ prev' = col[id]
        /\ tog' = IF started THEN [tog EXCEPT !.n = 2]
                  ELSE [id |-> id, user |-> u, n |-> 1,
                        orig |-> IsCompleted(tproc[p].doc), raced |-> raced]
        /\ IF upsert_checked
           THEN /\ last' = Response("toggle", u, id, "error", TRUE, <<>>, NoArgs)
                /\ UNCHANGED <<col, completed_at>>
           ELSE /\ col' = [col EXCEPT ![id] =
                             IF col[id] # NoDoc
                             THEN [col[id] EXCEPT !.completed = {new_completed},
                                                  !.updated_at = now]
                             ELSE UpsertedDoc(new_completed, now)]
                /\ completed_at' = [completed_at EXCEPT ![id] =
                                      IF new_completed THEN now ELSE NoTime]
                /\ last' = Response("toggle", u, id, "redirect", TRUE, <<>>, NoArgs)
        /\ UNCHANGED <<next_id, now, upsert_checked, users_col, rproc, calc_in, calc_out>>

---------------------------------------------------------------------------
(* POST /delete/<assignment_id> *)

DeleteAssignment(u, id) ==
    /\ tog' = NoTog
    /\ prev' = DocAt(col, id)
    /\ IF u = Anonymous
       THEN /\ last' = LoginRequired("delete", id)
            /\ UNCHANGED <<col, completed_at>>
       ELSE IF id = BadId
       THEN /\ last' = Response("delete", u, id, "bad_request", FALSE, <<>>, NoArgs)
            /\ UNCHANGED <<col, completed_at>>
       ELSE /\ last' = Response("delete", u, id, "redirect", TRUE, <<>>, NoArgs)
            /\ IF col[id] # NoDoc /\ col[id].user_id = u
               THEN /\ col' = [col EXCEPT ![id] = NoDoc]
                    /\ completed_at' = [completed_at EXCEPT ![id] = NoTime]
               ELSE UNCHANGED <<col, completed_at>>
    /\ UNCHANGED <<next_id, now, upsert_checked, tproc, users_col, rproc,
                   calc_in, calc_out>>

---------------------------------------------------------------------------
(* GET and POST /edit/<assignment_id> *)

(* Everything before `if request.method == "POST"`: the response the      *)
(* handler gives when it returns early, or "found"                         *)
EditLookup(u, id) ==
    IF u = Anonymous THEN "login"
    ELSE IF id = BadId THEN "invalid_id"
    ELSE IF col[id] = NoDoc THEN "not_found"
    ELSE "found"

EditForm(u, id) ==
    LET r == EditLookup(u, id)
    IN  /\ tog' = NoTog
        /\ prev' = DocAt(col, id)
        /\ last' = CASE r = "login" -> LoginRequired("edit_form", id)
                     [] r = "invalid_id" ->
                          Response("edit_form", u, id, "invalid_id", FALSE, <<>>, NoArgs)
                     [] r = "not_found" ->
                          Response("edit_form", u, id, "not_found", TRUE, <<>>, NoArgs)
                     [] OTHER ->
                          Response("edit_form", u, id, "ok", TRUE, <<id>>, NoArgs)
        /\ UNCHANGED <<col, next_id, now, upsert_checked, tproc, completed_at,
                       users_col, rproc, calc_in, calc_out>>

(* The POST branch.  The dictionary is bound to update_doc and the         *)
(* update_one call names update, which is defined nowhere: a form that     *)
(* passes validation ends in NameError before update_one is called.        *)
EditSubmit(u, id, form) ==
    LET r == EditLookup(u, id)
    IN  /\ tog' = NoTog
        /\ prev' = DocAt(col, id)
        /\ last' = CASE r = "login" -> LoginRequired("edit", id)
                     [] r = "invalid_id" ->
                          Response("edit", u, id, "invalid_id", FALSE, <<>>, NoArgs)
                     [] r = "not_found" ->
                          Response("edit", u, id, "not_found", TRUE, <<>>, NoArgs)
                     [] OTHER ->
                          IF FormValueError(form) \/ FormValidationError(form)
                          THEN Response("edit", u, id, "bad_request", TRUE, <<id>>, NoArgs)
                          ELSE Response("edit", u, id, "error", TRUE, <<>>, NoArgs)
        /\ UNCHANGED <<col, next_id, now, upsert_checked, tproc, completed_at,
                       users_col, rproc, calc_in, calc_out>>

---------------------------------------------------------------------------
(* GET /search and GET /export: the query builder *)

(* str.lower() on the values of show_completed the model submits *)
LowerStr(s) == CASE s = "True" -> "true" [] s = "TRUE" -> "true" [] OTHER -> s

(* Case folding of one character, for the "i" option of $regex *)
LowerChar(ch) == CASE ch = "H" -> "h" [] ch = "W" -> "w" [] ch = "M" -> "m"
                   [] OTHER -> ch

(* The database compiles the pattern; an unbalanced "(" does not compile *)
RegexCompiles(pat) == \A i \in 1..Len(pat) : pat[i] # "("

(* {"$regex": pat, "$options": "i"}: pat matches somewhere in text, where  *)
(* "." stands for any one character and every other character for itself  *)
RegexSearch(pat, text) ==
    \E k \in 0..(Len(text) - Len(pat)) :
        \A j \in 1..Len(pat) :
            \/ pat[j] = "."
            \/ LowerChar(pat[j]) = LowerChar(text[k + j])

(* The lower date bound: no constraint when absent or malformed *)
DueStartBound(args) ==
    IF args.due_start = "" \/ ParseIsoDate(args.due_start) = ValueError
    THEN {}
    ELSE {Midnight(ParseIsoDate(args.due_start))}

(* The upper date bound is datetime.max.time() of the end day: its last    *)
(* hour, at the resolution of the model                                    *)
DueEndBound(args) ==
    IF args.due_end = "" \/ ParseIsoDate(args.due_end) = ValueError
    THEN {}
    ELSE {Midnight(ParseIsoDate(args.due_end)) + 23}

TimeMinBound(args) ==
    IF args.time_min = "" \/ ParseInt(args.time_min) = ValueError
    THEN {}
    ELSE {ParseInt(args.time_min)}

TimeMaxBound(args) ==
    IF args.time_max = "" \/ ParseInt(args.time_max) = ValueError
    THEN {}
    ELSE {ParseInt(args.time_max)}

ShowCompleted(args) == LowerStr(args.show_completed) = "true"

(* The query dictionary of search and of export, as a predicate on a document *)
SearchQuery(u, args, doc) ==
    /\ doc.user_id = u
    /\ args.q # <<>> =>
         RegexSearch(args.q, doc.title) \/ RegexSearch(args.q, doc.notes)
    /\ args.course # "" => doc.course = args.course
    /\ \A b \in DueStartBound(args) : doc.due_date # NoTime /\ doc.due_date >= b
    /\ \A b \in DueEndBound(args) : doc.due_date # NoTime /\ doc.due_date <= b
    /\ \A b \in TimeMinBound(args) :
         doc.estimated_time # NoTime /\ doc.estimated_time >= b
    /\ \A b \in TimeMaxBound(args) :
         doc.estimated_time # NoTime /\ doc.estimated_time <= b
    /\ ~ShowCompleted(args) => doc.completed # {TRUE}

(* The database rejects the find: the free-text pattern does not compile *)
QueryFails(args) == args.q # <<>> /\ ~RegexCompiles(args.q)

Listing(op, u, args, capped) ==
    LET Selected(doc) == SearchQuery(u, args, doc)
        found == SortedFind(col, Selected)
    IN  /\ tog' = NoTog
        /\ prev' = NoDoc
        /\ last' = IF u = Anonymous
                   THEN [LoginRequired(op, BadId) EXCEPT !.args = args]
                   ELSE IF QueryFails(args)
                   THEN Response(op, u, BadId, "error", TRUE, <<>>, args)
                   ELSE Response(op, u, BadId, "ok", TRUE,
                                 IF capped THEN Limit(found, SearchLimit) ELSE found,
                                 args)
        /\ UNCHANGED <<col, next_id, now, upsert_checked, tproc, completed_at,
                       users_col, rproc, calc_in, calc_out>>

Search(u, args) == Listing("search", u, args, TRUE)

ExportAssignments(u, args) == Listing("export", u, args, FALSE)

-------------------------------------------------------------------------------------------------------------------------------------------------
(* The clock *)

Tick(limit) ==
    /\ \E d \in TickSteps : now + d <= limit /\ now' = now + d
    /\ UNCHANGED <<col, next_id, upsert_checked, tproc, last, prev, tog,
                   completed_at, users_col, rproc, calc_in, calc_out>>

---------------------------------------------------------------------------
(* Requests *)

Chars(a, b) == <<a, b>>

GoodForm == [title |-> Chars("h", "w"), course |-> "math", notes |-> <<>>,
             due_date |-> "2024-01-02", priority |-> "", estimated_time |-> "30"]

BadDateForm == [GoodForm EXCEPT !.due_date = "01/02/2024"]

EarlyForm == [GoodForm EXCEPT !.due_date = "2024-01-01"]

PlainArgs == {NoArgs, [NoArgs EXCEPT !.show_completed = "true"]}

(* A document of an earlier deployment, stored without a completed field *)
LegacyDoc ==
    [assignment_to_dict("u1", GoodForm, 0) EXCEPT !.completed = {}]

NoCall == [completed |-> {}, due |-> [kind |-> "none", text |-> "", at |-> 0],
           now |-> 0]

InitIdle ==
    /\ now = 0
    /\ tproc = [p \in {"p1", "p2"} |-> IdleProc]
    /\ last = NoResponse
    /\ prev = NoDoc
    /\ tog = NoTog
    /\ completed_at = [id \in Ids |-> NoTime]
    /\ users_col = <<>>
    /\ rproc = [p \in {"p1", "p2"} |-> [pc |-> "idle", username |-> "", email |-> ""]]
    /\ calc_in = NoCall
    /\ calc_out = [done |-> TRUE, flags |-> [is_overdue |-> FALSE, is_due_soon |-> FALSE]]

EmptyCol == [id \in Ids |-> NoDoc]

AllIdle == \A p \in DOMAIN tproc : tproc[p].pc = "idle"

---------------------------------------------------------------------------
(* The application with every kind of requester, one request at a time *)

Init ==
    /\ InitIdle
    /\ upsert_checked \in BOOLEAN
    /\ col = EmptyCol
    /\ next_id = 1

Next ==
    \/ Tick(ShortTime)
    \/ AllIdle /\ \E u \in Requesters : Index(u)
    \/ AllIdle /\ \E u \in Requesters, form \in {GoodForm, BadDateForm} :
                    AddAssignment(u, form)
    \/ \E u \in Requesters, id \in Ids \cup {BadId} : ToggleFind("p1", u, id)
    \/ ToggleUpdate("p1")
    \/ AllIdle /\ \E u \in Requesters, id \in Ids : DeleteAssignment(u, id)
    \/ AllIdle /\ \E u \in Requesters, id \in Ids : EditForm(u, id)
    \/ AllIdle /\ \E u \in Requesters, id \in Ids, form \in {GoodForm, BadDateForm} :
                    EditSubmit(u, id, form)
    \/ AllIdle /\ \E u \in Requesters, args \in PlainArgs : Search(u, args)
    \/ AllIdle /\ \E u \in Requesters, args \in PlainArgs : ExportAssignments(u, args)

Spec == Init /\ [][Next]_vars

-------------------------------------------------------------------------------------------------------------------------------------------------
(* One signed-in user with two due dates: the order of the listings *)

InitListing ==
    /\ InitIdle
    /\ upsert_checked \in BOOLEAN
    /\ col = EmptyCol
    /\ next_id = 1

NextListing ==
    \/ Tick(ShortTime)
    \/ AllIdle /\ Index("u1")
    \/ AllIdle /\ \E form \in {GoodForm, EarlyForm} : AddAssignment("u1", form)
    \/ \E id \in Ids : ToggleFind("p1", "u1", id)
    \/ ToggleUpdate("p1")
    \/ AllIdle /\ \E id \in Ids : DeleteAssignment("u1", id)
    \/ AllIdle /\ \E id \in Ids : EditSubmit("u1", id, EarlyForm)
    \/ AllIdle /\ \E args \in PlainArgs : Search("u1", args)
    \/ AllIdle /\ \E args \in PlainArgs : ExportAssignments("u1", args)

SpecListing == InitListing /\ [][NextListing]_vars

---------------------------------------------------------------------------
(* Two signed-in users over more than a day: completion and the landing view *)

InitVisibility ==
    /\ InitIdle
    /\ upsert_checked \in BOOLEAN
    /\ \/ col = EmptyCol /\ next_id = 1
       \/ col = [EmptyCol EXCEPT ![1] = LegacyDoc] /\ next_id = 2

NextVisibility ==
    \/ Tick(MaxTime)
    \/ AllIdle /\ \E u \in UserIds : Index(u)
    \/ AllIdle /\ AddAssignment("u1", GoodForm)
    \/ \E u \in UserIds, id \in Ids : ToggleFind("p1", u, id)
    \/ ToggleUpdate("p1")
    \/ AllIdle /\ \E id \in Ids : DeleteAssignment("u1", id)
    \/ AllIdle /\ \E id \in Ids : EditSubmit("u1", id, EarlyForm)

SpecVisibility == InitVisibility /\ [][NextVisibility]_vars

---------------------------------------------------------------------------
(* Two toggle requests of one user in flight at a time: each request is a  *)
(* find_one followed by an update_one, and the calls of the two requests   *)
(* reach the database in any order                                         *)

InitRace ==
    /\ InitIdle
    /\ upsert_checked \in BOOLEAN
    /\ \/ col = EmptyCol /\ next_id = 1
       \/ col = [EmptyCol EXCEPT ![1] = LegacyDoc] /\ next_id = 2

NextRace ==
    \/ Tick(ShortTime)
    \/ AddAssignment("u1", GoodForm)
    \/ \E p \in DOMAIN tproc, id \in Ids : ToggleFind(p, "u1", id)
    \/ \E p \in DOMAIN tproc : ToggleUpdate(p)

SpecRace == InitRace /\ [][NextRace]_vars

---------------------------------------------------------------------------
(* POST /register.  The handler reads the users collection twice and then  *)
(* inserts; requests of different clients interleave between those calls.  *)

IdleRegister == [pc |-> "idle", username |-> "", email |-> ""]

(* A find_one on the users collection that matches *)
UsernameTaken(name) == \E i \in 1..Len(users_col) : users_col[i].username = name

EmailTaken(email) == \E i \in 1..Len(users_col) : users_col[i].email = email

(* The basic validation and users_col.find_one({"username": username}) *)
RegisterCheckUsername(p, form) ==
    /\ rproc[p].pc = "idle"
    /\ IF \/ form.username = "" \/ form.email = "" \/ form.password = ""
          \/ form.password # form.confirm_password
          \/ UsernameTaken(form.username)
       THEN UNCHANGED rproc
       ELSE rproc' = [rproc EXCEPT ![p] = [pc |-> "username_free",
                                            username |-> form.username,
                                            email |-> form.email]]
    /\ UNCHANGED <<col, next_id, now, upsert_checked, tproc, last, prev, tog,
                   completed_at, users_col, calc_in, calc_out>>

(* users_col.find_one({"email": email}) *)
RegisterCheckEmail(p) ==
    /\ rproc[p].pc = "username_free"
    /\ rproc' = [rproc EXCEPT ![p] =
                   IF EmailTaken(rproc[p].email) THEN IdleRegister
                   ELSE [rproc[p] EXCEPT !.pc = "email_free"]]
    /\ UNCHANGED <<col, next_id, now, upsert_checked, tproc, last, prev, tog,
                   completed_at, users_col, calc_in, calc_out>>

(* users_col.insert_one(user_data); no index on the collection rejects it *)
RegisterInsert(p) ==
    /\ rproc[p].pc = "email_free"
    /\ Len(users_col) < MaxAccounts
    /\ users_col' = Append(users_col, [username |-> rproc[p].username,
                                       email |-> rproc[p].email])
    /\ rproc' = [rproc EXCEPT ![p] = IdleRegister]
    /\ UNCHANGED <<col, next_id, now, upsert_checked, tproc, last, prev, tog,
                   completed_at, calc_in, calc_out>>

RegisterForms ==
    [username : {"", "alice", "bob"}, email : {"", "a@x.org", "b@x.org"},
     password : {"", "pw"}, confirm_password : {"pw", "pv"}]

InitRegister ==
    /\ InitIdle
    /\ upsert_checked = TRUE
    /\ col = EmptyCol
    /\ next_id = 1

NextRegister ==
    \/ \E p \in DOMAIN rproc, form \in RegisterForms : RegisterCheckUsername(p, form)
    \/ \E p \in DOMAIN rproc : RegisterCheckEmail(p)
    \/ \E p \in DOMAIN rproc : RegisterInsert(p)

SpecRegister == InitRegister /\ [][NextRegister]_vars

-------------------------------------------------------------------------------------------------------------------------------------------------
(* calculate_assignment_status.  The due date of the argument is a record  *)
(* of its Python type and its value: "none" (no due_date key, or None),    *)
(* "str" with its text, "date" and "datetime" with their time in hours,    *)
(* and "other" (any other truthy value).                                   *)

NoFlags == [is_overdue |-> FALSE, is_due_soon |-> FALSE]

(* datetime.strptime(text, "%Y-%m-%d"): midnight of the day, or ValueError *)
StrptimeYmd(text) ==
    IF ParseIsoDate(text) = ValueError THEN ValueError
    ELSE Midnight(ParseIsoDate(text))

(* `not due` *)
DueIsFalsy(due) == due.kind = "none" \/ (due.kind = "str" /\ due.text = "")

(* The try block up to due_datetime: the datetime, or ValueError when the  *)
(* block is left without setting a flag                                    *)
DueDatetime(due) ==
    CASE due.kind = "str" -> StrptimeYmd(due.text)
      [] due.kind = "date" -> Midnight(DayOf(due.at))
      [] due.kind = "datetime" -> due.at
      [] OTHER -> ValueError

calculate_overdue_inclusive(assignment, t) ==
    IF Get(assignment.completed, FALSE) THEN NoFlags
    ELSE IF DueIsFalsy(assignment.due) THEN NoFlags
    ELSE IF DueDatetime(assignment.due) = ValueError THEN NoFlags
    ELSE LET due_datetime == DueDatetime(assignment.due)
             now_midnight == Midnight(DayOf(t))
             due_midnight == Midnight(DayOf(due_datetime))
             time_until_due == due_datetime - t
         IN  [is_overdue |-> due_midnight <= now_midnight,
              is_due_soon |-> 0 <= time_until_due /\ time_until_due <= DueSoonHours]

calculate_assignment_status(assignment, t) ==
    IF Get(assignment.completed, FALSE) THEN NoFlags
    ELSE IF DueIsFalsy(assignment.due) THEN NoFlags
    ELSE IF DueDatetime(assignment.due) = ValueError THEN NoFlags
    ELSE LET due_datetime == DueDatetime(assignment.due)
             now_midnight == Midnight(DayOf(t))
             due_midnight == Midnight(DayOf(due_datetime))
             time_until_due == due_datetime - t
         IN  [is_overdue |-> due_midnight < now_midnight,
              is_due_soon |-> 0 <= time_until_due /\ time_until_due <= DueSoonHours]

Hours == 0..(Midnight(MaxDay) + 23)

DueTexts == {"", "01/02/2024", "2024-13-45"}
            \cup {s \in DOMAIN DateTable : DateTable[s] <= MaxDay}

DueValues ==
    {[kind |-> k, text |-> "", at |-> 0] : k \in {"none", "other"}}
    \cup {[kind |-> "str", text |-> s, at |-> 0] : s \in DueTexts}
    \cup {[kind |-> "date", text |-> "", at |-> Midnight(d)] : d \in 0..MaxDay}
    \cup {[kind |-> "datetime", text |-> "", at |-> h] : h \in Hours}

InitStatus ==
    /\ InitIdle
    /\ upsert_checked = TRUE
    /\ col = EmptyCol
    /\ next_id = 1

(* The arguments of one call *)
PickAssignment ==
    /\ calc_in = NoCall
    /\ calc_out.done
    /\ \E c \in {{}, {TRUE}, {FALSE}}, due \in DueValues, t \in Hours :
          calc_in' = [completed |-> c, due |-> due, now |-> t]
    /\ calc_out' = [done |-> FALSE, flags |-> NoFlags]
    /\ UNCHANGED <<col, next_id, now, upsert_checked, tproc, last, prev, tog,
                   completed_at, users_col, rproc>>

Calculate ==
    /\ ~calc_out.done
    /\ calc_out' = [done |-> TRUE,
                    flags |-> calculate_assignment_status(calc_in, calc_in.now)]
    /\ UNCHANGED <<col, next_id, now, upsert_checked, tproc, last, prev, tog,
                   completed_at, users_col, rproc, calc_in>>

NextStatus == PickAssignment \/ Calculate

SpecStatus == InitStatus /\ [][NextStatus]_vars

---------------------------------------------------------------------------
(* Search and export over stored collections, with every filter supplied, *)
(* left out or malformed                                                   *)

QueryArgs ==
    [q : {<<>>, <<"h">>, <<"M", ".">>, <<"(">>},
     course : {"", "math"},
     due_start : {"", "2024-01-02", "yesterday"},
     due_end : {"", "2024-01-02", "2024-02-30"},
     time_min : {"", "30", "half"},
     time_max : {"", "30", "1h"},
     show_completed : {"", "True"}]

ArtForm == [title |-> Chars("m", "w"), course |-> "art", notes |-> Chars("H", "i"),
            due_date |-> "2024-01-03", priority |-> "1", estimated_time |-> ""]

QueryDocs ==
    {assignment_to_dict("u1", GoodForm, 0),
     [assignment_to_dict("u1", EarlyForm, 0) EXCEPT !.completed = {TRUE}],
     assignment_to_dict("u1", ArtForm, 0),
     [assignment_to_dict("u1", [GoodForm EXCEPT !.estimated_time = "60"], 0)
        EXCEPT !.completed = {TRUE}],
     assignment_to_dict("u2", GoodForm, 0)}

InitQuery ==
    /\ InitIdle
    /\ upsert_checked = TRUE
    /\ col \in [Ids -> QueryDocs]
    /\ next_id = MaxDocs + 1

NextQuery ==
    \/ last.op = "none" /\ \E args \in QueryArgs : Search("u1", args)
    \/ last.op = "none" /\ \E args \in QueryArgs : ExportAssignments("u1", args)

SpecQuery == InitQuery /\ [][NextQuery]_vars

---------------------------------------------------------------------------
(* Properties of the application *)

Listed(id) == \E i \in 1..Len(last.listing) : last.listing[i] = id

ForeignRequest ==
    /\ last.op \in {"toggle", "edit_form", "edit", "delete"}
    /\ last.user \in UserIds
    /\ prev # NoDoc
    /\ prev.user_id # last.user

(* The delete handler answers with the same redirect whether or not a      *)
(* document was removed: that answer counts as its not-found outcome.      *)
ReportsNotFound ==
    \/ last.status = "not_found"
    \/ last.op = "delete" /\ last.status = "redirect"

(* C1: a toggle, edit-form, edit or delete request by a signed-in user on  *)
(* an assignment that another user owns reports not-found and leaves the   *)
(* stored assignment as it was.                                            *)
C1_ForeignRequestNotFound ==
    ForeignRequest => ReportsNotFound /\ col[last.id] = prev

(* C2: every record that the index, the search or the export hands to a    *)
(* requesting user is owned by that user.                                  *)
C2_ListingOwnedByRequester ==
    last.op \in {"index", "search", "export"} =>
        \A i \in 1..Len(last.listing) : col[last.listing[i]].user_id = last.user

(* C3: a request without an authenticated session is turned away before    *)
(* the handler issues any call on the assignment collection.               *)
C3_NoRepositoryAccessBeforeLogin ==
    last.user = Anonymous /\ last.op # "none" => last.repo = FALSE

(* C4: no two accounts of the users collection share a username and no    *)
(* two share an email, whatever the order of the steps of the registration *)
(* requests.                                                               *)
C4_AccountsUnique ==
    \A i, j \in 1..Len(users_col) :
        i < j => /\ users_col[i].username # users_col[j].username
                 /\ users_col[i].email # users_col[j].email

OwnerEditAccepted ==
    /\ last.op = "edit"
    /\ prev # NoDoc
    /\ prev.user_id = last.user
    /\ last.status \notin {"bad_request"}

(* C5: an edit submission by the owner that passes validation keeps the    *)
(* owner and the fields the request does not carry (notes, priority,       *)
(* completed) and stamps updated_at with the time of the request.          *)
C5_EditRestampsAndKeepsRest ==
    OwnerEditAccepted =>
        /\ col[last.id].user_id = prev.user_id
        /\ col[last.id].notes = prev.notes
        /\ col[last.id].priority = prev.priority
        /\ col[last.id].completed = prev.completed
        /\ col[last.id].updated_at = last.at

(* The due date of the call is one the deriver can read as a date *)
DueWellFormed ==
    \/ calc_in.due.kind \in {"date", "datetime"}
    \/ calc_in.due.kind = "str" /\ calc_in.due.text \in DOMAIN DateTable

(* The hour the due date of the call stands for, whatever its type *)
DueHour ==
    IF calc_in.due.kind = "str" THEN Midnight(DateTable[calc_in.due.text])
    ELSE calc_in.due.at

NeitherFlag == ~calc_out.flags.is_overdue /\ ~calc_out.flags.is_due_soon

(* C6 as claimed: due soon is measured from midnight of the due date for   *)
(* every kind of due date.                                                 *)
C6_StatusFromMidnight ==
    calc_out.done /\ calc_in # NoCall =>
        IF calc_in.completed = {TRUE} \/ ~DueWellFormed
        THEN NeitherFlag
        ELSE /\ calc_out.flags.is_overdue <=> DayOf(DueHour) < DayOf(calc_in.now)
             /\ calc_out.flags.is_due_soon <=>
                  /\ 0 <= Midnight(DayOf(DueHour)) - calc_in.now
                  /\ Midnight(DayOf(DueHour)) - calc_in.now <= 24
             /\ ~(calc_out.flags.is_overdue /\ calc_out.flags.is_due_soon)

(* C6 as amended: both flags are false when completed is true or the due   *)
(* date is missing or malformed; otherwise is_overdue is true exactly when *)
(* the due date's calendar day is strictly before the current calendar     *)
(* day, and is_due_soon exactly when 0 <= (due - now) <= 24 hours, where   *)
(* due is midnight of the due date for a string or a date and the value    *)
(* itself, time of day included, for a datetime; never both.               *)
C6_StatusDerived ==
    calc_out.done /\ calc_in # NoCall =>
        IF calc_in.completed = {TRUE} \/ ~DueWellFormed
        THEN NeitherFlag
        ELSE /\ calc_out.flags.is_overdue <=> DayOf(DueHour) < DayOf(calc_in.now)
             /\ calc_out.flags.is_due_soon <=>
                  /\ 0 <= DueHour - calc_in.now
                  /\ DueHour - calc_in.now <= 24
             /\ ~(calc_out.flags.is_overdue /\ calc_out.flags.is_due_soon)

(* A datetime due later on the current day, reported as due soon although  *)
(* its midnight has passed                                                 *)
C6_Witness ==
    /\ calc_out.done
    /\ calc_in.due.kind = "datetime"
    /\ calc_in.completed # {TRUE}
    /\ Midnight(DayOf(calc_in.due.at)) < calc_in.now
    /\ calc_in.now < calc_in.due.at
    /\ calc_out.flags.is_due_soon
    /\ ~calc_out.flags.is_overdue

(* Case-insensitive match of the free text in the title or the notes *)
TextApplies(args, doc) ==
    RegexSearch(args.q, doc.title) \/ RegexSearch(args.q, doc.notes)

(* The record passes every filter of the request that is supplied and      *)
(* well-formed                                                             *)
PassesFilters(args, doc) ==
    /\ args.q # <<>> => TextApplies(args, doc)
    /\ args.course # "" => doc.course = args.course
    /\ args.due_start \in DOMAIN DateTable =>
         doc.due_date >= Midnight(DateTable[args.due_start])
    /\ args.due_end \in DOMAIN DateTable =>
         doc.due_date < Midnight(DateTable[args.due_end] + 1)
    /\ args.time_min \in DOMAIN IntTable =>
         doc.estimated_time # NoTime /\ doc.estimated_time >= IntTable[args.time_min]
    /\ args.time_max \in DOMAIN IntTable =>
         doc.estimated_time # NoTime /\ doc.estimated_time <= IntTable[args.time_max]
    /\ args.show_completed \notin {"true", "True", "TRUE"} => ~IsCompleted(doc)

(* C7: a search or an export never fails, whatever its filter parameters,  *)
(* and returns exactly the requester's records that pass every supplied    *)
(* and well-formed filter; a malformed bound constrains nothing.           *)
C7_QueryNeverFails ==
    last.op \in {"search", "export"} /\ last.user \in UserIds =>
        /\ last.status = "ok"
        /\ \A id \in Ids :
              Listed(id) <=>
                  /\ col[id] # NoDoc
                  /\ col[id].user_id = last.user
                  /\ PassesFilters(last.args, col[id])

(* The same with the failing requests left out: what the query returns     *)
(* when the database accepts it                                            *)
QueryAnswersAsFiltered ==
    last.op \in {"search", "export"} /\ last.status = "ok" =>
        \A id \in Ids :
            Listed(id) <=>
                /\ col[id] # NoDoc
                /\ col[id].user_id = last.user
                /\ PassesFilters(last.args, col[id])

(* C8: the index, the search and the export return their records by due   *)
(* date ascending and, among equal due dates, by creation time descending. *)
C8_ListingSorted ==
    last.op \in {"index", "search", "export"} =>
        \A i, j \in 1..Len(last.listing) :
            i < j =>
                LET a == col[last.listing[i]]
                    b == col[last.listing[j]]
                IN  \/ a.due_date < b.due_date
                    \/ a.due_date = b.due_date /\ a.created_at >= b.created_at

(* A listing that holds a later-inserted record in front of an earlier one *)
C8_Witness ==
    /\ last.op \in {"index", "search", "export"}
    /\ Len(last.listing) >= 2
    /\ \E i \in 1..(Len(last.listing) - 1) :
          /\ last.listing[i] > last.listing[i + 1]
          /\ col[last.listing[i]].due_date < col[last.listing[i + 1]].due_date

(* C9: the landing view of a request at time t shows an assignment of the  *)
(* requester exactly when it is not completed or was completed no more     *)
(* than 24 hours before t.                                                 *)
C9_LandingVisibility ==
    last.op = "index" /\ last.status = "ok" =>
        \A id \in Ids :
            col[id] # NoDoc /\ col[id].user_id = last.user =>
                (Listed(id) <=>
                    \/ ~IsCompleted(col[id])
                    \/ /\ completed_at[id] # NoTime
                       /\ last.at - completed_at[id] <= 24)

(* A landing view that leaves out a record completed more than 24 hours    *)
(* earlier and shows one that was completed within the last 24 hours       *)
C9_Witness ==
    /\ last.op = "index" /\ last.status = "ok"
    /\ \E id \in Ids :
          /\ col[id] # NoDoc /\ col[id].user_id = last.user
          /\ IsCompleted(col[id])
          /\ last.at - completed_at[id] > 24
          /\ ~Listed(id)
    /\ \E id \in Ids :
          /\ col[id] # NoDoc /\ col[id].user_id = last.user
          /\ IsCompleted(col[id])
          /\ Listed(id)

TwoOwnerToggles ==
    /\ tog.n = 2
    /\ col[tog.id] # NoDoc
    /\ col[tog.id].user_id = tog.user

(* C10: two toggle requests by the owner on the same record, one after the *)
(* other with no request between them, leave completed at the value it had *)
(* before the first.                                                       *)
C10_DoubleToggleRestores ==
    TwoOwnerToggles => IsCompleted(col[tog.id]) = tog.orig

(* Two such toggles that both wrote, on a record that was completed before *)
C10_Witness ==
    /\ TwoOwnerToggles
    /\ ~upsert_checked
    /\ tog.orig = TRUE
    /\ prev.completed = {FALSE}
    /\ col[tog.id].completed = {TRUE}

(* Two toggles of one record by one user have finished, the second had      *)
(* read the record before the first wrote, both wrote, and no request is   *)
(* in flight                                                               *)
TwoRacedToggles ==
    /\ tog.n = 2
    /\ tog.raced
    /\ AllIdle
    /\ ~upsert_checked
    /\ col[tog.id] # NoDoc

====
